---------------------------- MODULE Spec2Model ----------------------------
(***************************************************************************)
(* Token Visualizer: the tokenizer worker (the second half of              *)
(* pages/_document.tsx), the TokenVisualizer component in its three        *)
(* main-thread snapshots (components/token-visualizer.tsx and the two      *)
(* snapshots of unnamed/part_001) and the host coordinator of the worker.  *)
(*                                                                         *)
(* Texts are sequences of characters; a character is one of "a", "b",      *)
(* "ROCKET" (U+1F680, four UTF-8 bytes, two UTF-16 code units) and "EOT"   *)
(* (the thirteen characters of the special token <|endoftext|>, which      *)
(* Tiktoken.encode refuses with its default disallowed_special = "all").   *)
(* "FFFD" is U+FFFD, which TextDecoder emits for malformed input.          *)
(***************************************************************************)
EXTENDS Integers, Sequences, FiniteSets, TLC

(***************************************************************************)
(* Bounds of the model.                                                    *)
(***************************************************************************)
LongLen == 20       \* length of the one long input text
MaxHandles == 3     \* tokenizer handles created in one run
MaxJobs == 2        \* jobs the host posts to the worker in one run

(***************************************************************************)
(* Program constants.                                                      *)
(***************************************************************************)
TOKEN_MIN_WIDTH == 80
TOKEN_HEIGHT == 35
OVERSCAN == 5
COLUMN_MARGIN == 4
VIEWPORT_MAX_HEIGHT == 200

Null == [null |-> TRUE]   \* JS null (no selected token)
Undefined == "undefined"  \* JS undefined (an absent field of a message)

(***************************************************************************)
(* Strings.                                                                *)
(***************************************************************************)
RECURSIVE Repeat(_, _)
Repeat(c, n) == IF n = 0 THEN <<>> ELSE <<c>> \o Repeat(c, n - 1)

\* The input texts the user (or the host) chooses among.
Texts ==
  { <<>>, <<"a">>, <<"b", "a">>, <<"a", "ROCKET">>, <<"EOT">>,
    Repeat("a", LongLen) }

\* The texts the host submits.
HostTexts ==
  { <<>>, <<"b", "a">>, <<"a", "ROCKET">>, <<"EOT">>, Repeat("a", LongLen) }

\* UTF-16 code units of one character: what String.length counts.
Utf16Units(c) ==
  CASE c = "ROCKET" -> 2
    [] c = "EOT" -> 13
    [] OTHER -> 1

\* String.prototype.length.
RECURSIVE length(_)
length(s) == IF s = <<>> THEN 0 ELSE Utf16Units(Head(s)) + length(Tail(s))

\* UTF-8 bytes of one character.
Utf8Bytes(c) ==
  CASE c = "a" -> <<97>>
    [] c = "b" -> <<98>>
    [] c = "ROCKET" -> <<240, 159, 154, 128>>
    [] c = "FFFD" -> <<239, 191, 189>>
    [] OTHER -> <<60>>

\* The UTF-8 encoding of a text, as the tokenizer sees it.
RECURSIVE Utf8Encode(_)
Utf8Encode(s) == IF s = <<>> THEN <<>> ELSE Utf8Bytes(Head(s)) \o Utf8Encode(Tail(s))

IsPrefix(p, s) == Len(p) <= Len(s) /\ SubSeq(s, 1, Len(p)) = p

Drop(s, n) == SubSeq(s, n + 1, Len(s))

\* The longest k such that the first k bytes of s are a prefix of the
\* four-byte sequence of U+1F680.
RocketPrefixLen(s) ==
  LET r == <<240, 159, 154, 128>>
      ks == { k \in 1..4 : k <= Len(s) /\ SubSeq(s, 1, k) = SubSeq(r, 1, k) }
  IN IF ks = {} THEN 0 ELSE CHOOSE k \in ks : \A j \in ks : j <= k

\* new TextDecoder("utf-8").decode(bytes): well-formed sequences decode to
\* their character, every maximal malformed subpart to one U+FFFD.
RECURSIVE TextDecoderDecode(_)
TextDecoderDecode(bytes) ==
  IF bytes = <<>> THEN <<>>
  ELSE IF Head(bytes) = 97 THEN <<"a">> \o TextDecoderDecode(Tail(bytes))
  ELSE IF Head(bytes) = 98 THEN <<"b">> \o TextDecoderDecode(Tail(bytes))
  ELSE LET k == RocketPrefixLen(bytes)
       IN IF k = 4 THEN <<"ROCKET">> \o TextDecoderDecode(Drop(bytes, 4))
          ELSE IF k > 0 THEN <<"FFFD">> \o TextDecoderDecode(Drop(bytes, k))
          ELSE <<"FFFD">> \o TextDecoderDecode(Tail(bytes))

(***************************************************************************)
(* The tokenizer library (@dqbd/tiktoken) as the code uses it.             *)
(***************************************************************************)
\* The selectable models of the ModelSelector that the model keeps: two
\* tiktoken models with different encodings, and one model tiktoken does
\* not know.
MODEL_GROUPS == { "gpt-4o", "gpt-4", "Xenova/gemma-2b" }

\* The MODELS list of the Select of the older snapshots: tiktoken models only.
MODELS == { "gpt-4o", "gpt-4" }

\* The encoding tiktoken resolves a model to; Undefined when
\* encoding_for_model throws.
EncodingOf(m) ==
  CASE m = "gpt-4o" -> "o200k_base"
    [] m = "gpt-4" -> "cl100k_base"
    [] OTHER -> Undefined

\* The vocabulary of an encoding: token id = position. Every byte is a token;
\* o200k_base holds U+1F680 as one token, cl100k_base splits it.
Vocab(e) ==
  IF e = "o200k_base"
  THEN << <<97>>, <<98>>, <<240>>, <<159>>, <<154>>, <<128>>,
          <<97, 98>>, <<240, 159, 154, 128>> >>
  ELSE << <<97>>, <<98>>, <<240>>, <<159>>, <<154>>, <<128>>,
          <<240, 159, 154>>, <<97, 98>>, <<97, 97>> >>

\* The longest vocabulary entry that starts the bytes.
LongestMatch(e, bytes) ==
  LET v == Vocab(e)
      ms == { i \in 1..Len(v) : IsPrefix(v[i], bytes) }
  IN CHOOSE i \in ms : \A j \in ms : Len(v[j]) <= Len(v[i])

RECURSIVE EncodeBytes(_, _)
EncodeBytes(e, bytes) ==
  IF bytes = <<>> THEN <<>>
  ELSE LET i == LongestMatch(e, bytes)
       IN <<i>> \o EncodeBytes(e, Drop(bytes, Len(Vocab(e)[i])))

\* enc.encode(text) throws when the text holds a disallowed special token.
EncodeThrows(s) == \E i \in 1..Len(s) : s[i] = "EOT"

\* enc.encode(text): the token ids.
encode(e, s) == EncodeBytes(e, Utf8Encode(s))

\* enc.decode_single_token_bytes(id).
decode_single_token_bytes(e, id) == Vocab(e)[id]

(***************************************************************************)
(* lib/utils.ts: the palette.                                              *)
(***************************************************************************)
TOKEN_COLORS ==
  << [bg |-> "#3b82f6", border |-> "#1d4ed8"],
     [bg |-> "#8b5cf6", border |-> "#6d28d9"],
     [bg |-> "#ec4899", border |-> "#be185d"],
     [bg |-> "#f43f5e", border |-> "#be123c"],
     [bg |-> "#f97316", border |-> "#c2410c"],
     [bg |-> "#eab308", border |-> "#a16207"],
     [bg |-> "#22c55e", border |-> "#15803d"],
     [bg |-> "#14b8a6", border |-> "#0f766e"],
     [bg |-> "#06b6d4", border |-> "#0e7490"],
     [bg |-> "#6366f1", border |-> "#4338ca"],
     [bg |-> "#a855f7", border |-> "#7e22ce"],
     [bg |-> "#ef4444", border |-> "#b91c1c"] >>

\* A colour that changes only with every second position.
getTokenColorPairs(index) ==
  TOKEN_COLORS[((index \div 2) % Len(TOKEN_COLORS)) + 1].bg

\* index is 0-based, the sequence 1-based.
getTokenColor(index) == TOKEN_COLORS[(index % Len(TOKEN_COLORS)) + 1].bg

getTokenBorderColor(index) == TOKEN_COLORS[(index % Len(TOKEN_COLORS)) + 1].border

(***************************************************************************)
(* pages/_document.tsx lines 49-71: the worker's own copy of the palette.  *)
(***************************************************************************)
WorkerTOKEN_COLORS ==
  << [bg |-> "#3b82f6", border |-> "#1d4ed8"],
     [bg |-> "#8b5cf6", border |-> "#6d28d9"],
     [bg |-> "#ec4899", border |-> "#be185d"],
     [bg |-> "#f43f5e", border |-> "#be123c"],
     [bg |-> "#f97316", border |-> "#c2410c"],
     [bg |-> "#eab308", border |-> "#a16207"],
     [bg |-> "#22c55e", border |-> "#15803d"],
     [bg |-> "#14b8a6", border |-> "#0f766e"],
     [bg |-> "#06b6d4", border |-> "#0e7490"],
     [bg |-> "#6366f1", border |-> "#4338ca"],
     [bg |-> "#a855f7", border |-> "#7e22ce"],
     [bg |-> "#ef4444", border |-> "#b91c1c"] >>

WorkerGetTokenColor(index) ==
  WorkerTOKEN_COLORS[(index % Len(WorkerTOKEN_COLORS)) + 1].bg

\* A border colour taken from the palette entry after the background's.
WorkerGetTokenBorderColorNext(index) ==
  WorkerTOKEN_COLORS[((index + 1) % Len(WorkerTOKEN_COLORS)) + 1].border

WorkerGetTokenBorderColor(index) ==
  WorkerTOKEN_COLORS[(index % Len(WorkerTOKEN_COLORS)) + 1].border

(***************************************************************************)
(* State.                                                                  *)
(***************************************************************************)
VARIABLES
  snapshot,       \* which snapshot of the program runs (see Snapshots)
  mounted,        \* the component is mounted
  crashed,        \* an effect threw: React took the tree down
  pending,        \* the effects React runs at the next commit
  text,           \* useState("Hello, world!"): the editor's text
  debouncedText,  \* useDebounce(text, 1000)
  debTimer,       \* the debounce timer is armed
  edited,         \* the text changed since the timer last elapsed
  cleared,        \* the Clear button was the last to set the text
  model,          \* useState("gpt-4o")
  tokens,         \* useState<TokenInfo[]>([]): the live token sequence
  tokenCount,     \* useState(0)
  charCount,      \* useState(0)
  selectedToken,  \* useState<TokenInfo | null>(null)
  encodingName,   \* useState("o200k_base")
  isReady,        \* useState(false), older snapshots
  gridColumns,    \* useState(1)
  lastWidth,      \* the width the ResizeObserver last reported (-1: none yet)
  scrollTop,      \* scroll offset of the grid's scroll element, in px
  tiktokenRef,    \* tiktokenRef / encodingRef .current: a handle or 0 (null)
  mountEnc,       \* the handle the mount effect's cleanup closes over, or 0
  handles,        \* every handle encoding_for_model returned, in order
  toasts,         \* toast.error calls so far (capped at 1)
  wStarted,       \* the worker script has run
  jobs,           \* every message the host posted to the worker, in order
  handled,        \* how many of them self.onmessage has handled
  posted,         \* every message the worker posted, in order
  delivered,      \* how many of them the host has received
  hostField,      \* the field the host puts the model id in
  generation,     \* host: the job generation counter
  inflight,       \* host: generations of the jobs awaiting a reply
  liveGen,        \* the generation whose result is the live stream (0: none)
  dropped,        \* host: the results it discarded as stale
  encodedEmpty    \* enc.encode was called with the empty text

compVars ==
  << mounted, crashed, pending, text, debouncedText, debTimer, edited, cleared, model,
     tokens, tokenCount, charCount, selectedToken, encodingName, isReady,
     gridColumns, lastWidth, scrollTop, tiktokenRef, mountEnc, toasts >>

liveVars == << tokens, tokenCount, charCount, selectedToken, encodingName >>

workerVars == << wStarted, jobs, handled, posted, delivered >>

hostVars == << generation, inflight, liveGen, dropped >>

vars ==
  << snapshot, hostField, compVars, handles, workerVars, hostVars,
     encodedEmpty >>

\* "debounced": components/token-visualizer.tsx lines 79-206;
\* "direct": unnamed/part_001 lines 214-325 (with the auto-select effect);
\* "directNoAuto": unnamed/part_001 lines 626-726 (without it);
\* "worker": the worker of pages/_document.tsx lines 47-118 and its host.
Snapshots == { "debounced", "direct", "directNoAuto", "worker" }

\* The text every snapshot starts with stands for "Hello, world!".
InitialText == <<"b", "a">>

(***************************************************************************)
(* Handles: encoding_for_model(model) and Tiktoken.free().                 *)
(***************************************************************************)
\* A handle: the model it was made for, how often free() was called on it,
\* and whether encode was called on it after a free().
NewHandle(m) == [model |-> m, frees |-> 0, usedAfterFree |-> FALSE]

\* encoding_for_model(model) throws for a model tiktoken does not know.
encoding_for_model_throws(m) == EncodingOf(m) = Undefined

\* enc.free(): one more disposal call on handle h.
free(hs, h) == [hs EXCEPT ![h].frees = @ + 1]

IsFreed(hs, h) == hs[h].frees > 0

\* The free() calls made so far.
RECURSIVE TotalFrees(_)
TotalFrees(hs) == IF hs = <<>> THEN 0 ELSE Head(hs).frees + TotalFrees(Tail(hs))

(***************************************************************************)
(* The token loop shared by the worker and the component.                  *)
(***************************************************************************)
\* One TokenInfo of the component: lines 158-168.
TokenInfo(e, id, i) ==
  [ id |-> id,
    text |-> TextDecoderDecode(decode_single_token_bytes(e, id)),
    color |-> getTokenColor(i),
    borderColor |-> getTokenBorderColor(i) ]

\* for (let i = 0; i < tokenIds.length; i++) tokens.push({...})
RECURSIVE PushTokens(_, _, _)
PushTokens(e, tokenIds, i) ==
  IF tokenIds = <<>> THEN <<>>
  ELSE <<TokenInfo(e, Head(tokenIds), i)>> \o PushTokens(e, Tail(tokenIds), i + 1)

BuildTokens(e, tokenIds) == PushTokens(e, tokenIds, 0)

(***************************************************************************)
(* The worker: pages/_document.tsx lines 73-118.                           *)
(***************************************************************************)
\* One token of the worker's loop (lines 87-99), coloured from its own
\* palette.
WorkerTokenInfo(e, id, i) ==
  [ id |-> id,
    text |-> TextDecoderDecode(decode_single_token_bytes(e, id)),
    color |-> WorkerGetTokenColor(i),
    borderColor |-> WorkerGetTokenBorderColor(i) ]

\* for (let i = 0; i < tokenIds.length; i++) tokens.push({...})
RECURSIVE WorkerPushTokens(_, _, _)
WorkerPushTokens(e, tokenIds, i) ==
  IF tokenIds = <<>> THEN <<>>
  ELSE <<WorkerTokenInfo(e, Head(tokenIds), i)>>
         \o WorkerPushTokens(e, Tail(tokenIds), i + 1)

ReadyMessage == [status |-> "ready", job |-> 0]

\* A channel that hands the newest message over first.
postMessageFirst(queue, msgs) == msgs \o queue

\* self.postMessage: the messages leave in the order of the calls.
postMessage(queue, msgs) == queue \o msgs

\* The catch block's reply; job is the index of the message answered (not a
\* field of the real message).
ErrorMessage(j, why) == [status |-> "error", error |-> why, job |-> j]

\* The try block's reply.
CompleteMessage(j, e, s) ==
  LET tokenIds == encode(e, s)
  IN [ status |-> "complete",
       tokens |-> WorkerPushTokens(e, tokenIds, 0),
       tokenCount |-> Len(tokenIds),
       charCount |-> length(s),
       encodingName |-> e,
       job |-> j ]

\* A worker that destructures { text, modelId } instead.
MessageModelId(data) == data.modelId

\* const { text, model } = e.data
MessageModel(data) == data.model

\* A catch block that only logs the error and posts nothing.
WorkerCatchSilent(j, why) == <<>>

\* What the catch block posts.
WorkerCatch(j, why) == <<ErrorMessage(j, why)>>

\* A handler whose catch block is followed by the posting of the result, so
\* that a failed job is answered twice.
WorkerPostsFallThrough(j, data) ==
  LET m == MessageModel(data)
      empty == [ status |-> "complete", tokens |-> <<>>, tokenCount |-> 0,
                 charCount |-> length(data.text), encodingName |-> Undefined,
                 job |-> j ]
  IN IF encoding_for_model_throws(m) THEN WorkerCatch(j, "Invalid model") \o <<empty>>
     ELSE IF EncodeThrows(data.text) THEN WorkerCatch(j, "special token") \o <<empty>>
     ELSE <<CompleteMessage(j, EncodingOf(m), data.text)>>

\* self.onmessage on message number j: the messages it posts.
WorkerPosts(j, data) ==
  LET m == MessageModel(data)
  IN IF encoding_for_model_throws(m) THEN WorkerCatch(j, "Invalid model")
     ELSE IF EncodeThrows(data.text) THEN WorkerCatch(j, "special token")
     ELSE <<CompleteMessage(j, EncodingOf(m), data.text)>>

\* self.onmessage: the handle it creates and whether enc.free() is reached.
WorkerHandles(hs, data) ==
  LET m == MessageModel(data)
  IN IF encoding_for_model_throws(m) THEN hs
     ELSE IF EncodeThrows(data.text) THEN Append(hs, NewHandle(m))
     ELSE free(Append(hs, NewHandle(m)), Len(hs) + 1)

\* self.onmessage reaches enc.encode(text): encoding_for_model returned.
WorkerEncodes(data) == ~encoding_for_model_throws(MessageModel(data))

\* A worker script that installs the handler without announcing itself.
WorkerStartupSilent ==
  /\ snapshot = "worker"
  /\ ~wStarted
  /\ wStarted' = TRUE
  /\ UNCHANGED << snapshot, hostField, encodedEmpty, compVars, handles, jobs, handled, posted,
                  delivered, hostVars >>

\* self.postMessage({ status: 'ready' }) and the handler's installation.
WorkerStartup ==
  /\ snapshot = "worker"
  /\ ~wStarted
  /\ wStarted' = TRUE
  /\ posted' = postMessage(posted, <<ReadyMessage>>)
  /\ UNCHANGED << snapshot, hostField, encodedEmpty, compVars, handles, jobs, handled,
                  delivered, hostVars >>

WorkerOnMessage ==
  /\ snapshot = "worker"
  /\ wStarted
  /\ handled < Len(jobs)
  /\ LET data == jobs[handled + 1]
     IN /\ posted' = postMessage(posted, WorkerPosts(handled + 1, data))
        /\ handles' = WorkerHandles(handles, data)
        /\ encodedEmpty' = (encodedEmpty \/ (WorkerEncodes(data) /\ data.text = <<>>))
  /\ handled' = handled + 1
  /\ UNCHANGED << snapshot, hostField, compVars, wStarted, jobs, delivered,
                  hostVars >>

(***************************************************************************)
(* The host coordinator of the worker (specification sections 4.3 and 5).  *)
(* Its source is not among the files; the worker's replies carry no job    *)
(* identity, so the host attributes the k-th job reply to the k-th job it  *)
(* posted (one worker, one reply per job, in order).                       *)
(***************************************************************************)
\* The message the host posts; gen is the generation it was posted under
\* (not a field of the real message, and not read by the worker).
JobMessage(t, m, g) ==
  [ text |-> t,
    model |-> IF hostField = "model" THEN m ELSE Undefined,
    modelId |-> IF hostField = "modelId" THEN m ELSE Undefined,
    gen |-> g ]

\* On every new TokenStream the selection defaults to the first token.
DefaultSelection(ts) == IF Len(ts) > 0 THEN ts[1] ELSE Null

\* The coordinator emits a job for the text t and the model m; an empty text
\* short-circuits to the empty stream without a message to the worker.
HostSubmit(t, m) ==
  /\ snapshot = "worker"
  /\ generation < MaxJobs
  /\ generation' = generation + 1
  /\ text' = t
  /\ model' = m
  /\ IF t = <<>>
     THEN /\ tokens' = <<>>
          /\ tokenCount' = 0
          /\ charCount' = 0
          /\ selectedToken' = Null
          /\ liveGen' = generation + 1
          /\ UNCHANGED << jobs, inflight >>
     ELSE /\ jobs' = Append(jobs, JobMessage(t, m, generation + 1))
          /\ inflight' = Append(inflight, generation + 1)
          /\ UNCHANGED << tokens, tokenCount, charCount, selectedToken, liveGen >>
  /\ UNCHANGED << snapshot, hostField, encodedEmpty, cleared, mounted, crashed, pending, debouncedText,
                  debTimer, edited, encodingName, isReady, gridColumns, lastWidth, scrollTop,
                  tiktokenRef, mountEnc, toasts, handles, wStarted, handled,
                  posted, delivered, dropped >>

\* The generation the host takes a job reply to come from.
ReplyGeneration == IF inflight = <<>> THEN 0 ELSE Head(inflight)

\* A result of a superseded generation is dropped.
IsStale(g) == g < generation

\* The generation a posted message truly comes from.
TrueGeneration(m) == IF m.job = 0 THEN 0 ELSE jobs[m.job].gen

\* The host's onmessage: ready is noted; a job reply is applied when it is
\* of the current generation (complete: the new live stream; error: the
\* stream is cleared and the error reported) and dropped when stale.
HostReceive ==
  /\ snapshot = "worker"
  /\ delivered < Len(posted)
  /\ delivered' = delivered + 1
  /\ LET m == posted[delivered + 1]
         g == ReplyGeneration
     IN IF m.status = "ready"
        THEN UNCHANGED << liveVars, toasts, inflight, liveGen, dropped >>
        ELSE /\ inflight' = IF inflight = <<>> THEN <<>> ELSE Tail(inflight)
             /\ dropped' = IF IsStale(g) THEN dropped + 1 ELSE dropped
             /\ IF IsStale(g)
                THEN UNCHANGED << liveVars, toasts, liveGen >>
                ELSE IF m.status = "complete"
                THEN /\ tokens' = m.tokens
                     /\ tokenCount' = m.tokenCount
                     /\ charCount' = m.charCount
                     /\ encodingName' = m.encodingName
                     /\ selectedToken' = DefaultSelection(m.tokens)
                     /\ liveGen' = TrueGeneration(m)
                     /\ UNCHANGED toasts
                ELSE /\ tokens' = <<>>
                     /\ tokenCount' = 0
                     /\ charCount' = 0
                     /\ selectedToken' = Null
                     /\ liveGen' = TrueGeneration(m)
                     /\ toasts' = 1
                     /\ UNCHANGED encodingName
  /\ UNCHANGED << snapshot, hostField, encodedEmpty, cleared, mounted, crashed, pending, text,
                  debouncedText, debTimer, edited, model, isReady, gridColumns, lastWidth,
                  scrollTop, tiktokenRef, mountEnc, handles, wStarted, jobs,
                  handled, posted, generation >>

(***************************************************************************)
(* The TokenVisualizer component.  React runs the effects whose            *)
(* dependencies changed after each commit, in the order of declaration;    *)
(* an effect reads the state of that render and its setState calls show in *)
(* the next one, while a ref is written at once.  pending holds the        *)
(* effects of the next commit; a handler runs between commits.             *)
(***************************************************************************)
\* A tokenization that counts the characters as [...text].length does
\* (code points, not UTF-16 units).
TokenizeTextCodePoints(e, s) ==
  LET tokenIds == encode(e, s)
  IN [ tokens |-> BuildTokens(e, tokenIds),
       tokenCount |-> Len(tokenIds),
       charCount |-> Len(s) ]

\* What tokenizeText / the tokenization effect sets for encoding e and a
\* non-empty text s.
TokenizeText(e, s) ==
  LET tokenIds == encode(e, s)
  IN [ tokens |-> BuildTokens(e, tokenIds),
       tokenCount |-> Len(tokenIds),
       charCount |-> length(s) ]

\* What they set for the empty text.
EmptyStream == [tokens |-> <<>>, tokenCount |-> 0, charCount |-> 0]

\* The encoding a handle encodes with (a freed handle that still answers
\* answers as before).
HandleEncoding(hs, h) == EncodingOf(hs[h].model)

Min(a, b) == IF a < b THEN a ELSE b

Max(a, b) == IF a > b THEN a ELSE b

\* A row count that rounds down, as Math.floor would.
RowCountFloor(n, cols) == n \div cols

\* const rowCount = Math.ceil(tokens.length / gridColumns)
RowCount(n, cols) == (n + cols - 1) \div cols

\* The browser keeps scrollTop within the scrollable height.
MaxScroll(n, cols) == Max(0, RowCount(n, cols) * TOKEN_HEIGHT - VIEWPORT_MAX_HEIGHT)

\* The effects each snapshot runs at mount.
MountEffects(sn) ==
  CASE sn = "debounced" -> {"model", "tokenize", "autoSelect"}
    [] sn = "direct" -> {"mount", "model", "text", "autoSelect"}
    [] sn = "directNoAuto" -> {"mount", "model", "text"}
    [] OTHER -> {}

\* The models the snapshot's selector offers.
Selectable(sn) == IF sn = "debounced" THEN MODEL_GROUPS ELSE MODELS

\* components/token-visualizer.tsx lines 137-149: the model effect. Returns
\* the handle table, the ref, the encoding name and the toast it leaves.
\* freeThrows: whether free() on an already freed handle throws.
ModelEffect(hs, ref, m, name, freeThrows) ==
  LET hs1 == IF ref # 0 THEN free(hs, ref) ELSE hs
      freeThrew == ref # 0 /\ IsFreed(hs, ref) /\ freeThrows
      ok == ~freeThrew /\ ~encoding_for_model_throws(m)
      hs2 == IF ok THEN Append(hs1, NewHandle(m)) ELSE hs1
  IN [ handles |-> hs2,
       ref |-> IF ok THEN Len(hs2) ELSE ref,
       name |-> IF ok THEN EncodingOf(m) ELSE name,
       toast |-> ~ok ]

\* The model effect's part of the commit: what it leaves when it runs, the
\* state as it is when it does not.
AfterModelEffect(freeThrows) ==
  IF "model" \in pending
  THEN ModelEffect(handles, tiktokenRef, model, encodingName, freeThrows)
  ELSE [handles |-> handles, ref |-> tiktokenRef, name |-> encodingName,
        toast |-> FALSE]

\* A test that takes every string, the empty one too, as a text to encode.
TruthyAlways(s) == TRUE

\* if (debouncedText) / if (text) / if (!inputText): the empty string is
\* falsy.
Truthy(s) == s # <<>>

\* The tokenization effect calls enc.encode in this commit.
Encodes(me) == "tokenize" \in pending /\ me.ref # 0 /\ Truthy(debouncedText)

\* free() on a freed handle, and encode on one, are calls the library does
\* not define: each may throw or return.
FreeOutcomes ==
  IF "model" \in pending /\ tiktokenRef # 0 /\ IsFreed(handles, tiktokenRef)
  THEN BOOLEAN ELSE {FALSE}

UafOutcomes(freeThrows) ==
  LET me == AfterModelEffect(freeThrows)
  IN IF Encodes(me) /\ IsFreed(me.handles, me.ref) THEN BOOLEAN ELSE {FALSE}

\* The commit of the debounced snapshot: model effect, tokenization effect
\* (lines 151-177), auto-select effect (lines 180-186).
\* uafThrows: whether encode on a freed handle throws.
DebouncedEffects(freeThrows, uafThrows) ==
  /\ snapshot = "debounced"
  /\ mounted
  /\ pending # {}
  /\ LET me == AfterModelEffect(freeThrows)
         runTok == "tokenize" \in pending /\ me.ref # 0
         encodes == Encodes(me)
         uaf == encodes /\ IsFreed(me.handles, me.ref)
         hs3 == IF uaf THEN [me.handles EXCEPT ![me.ref].usedAfterFree = TRUE]
                ELSE me.handles
         threw == encodes /\ ((uaf /\ uafThrows) \/ EncodeThrows(debouncedText))
     IN \E res \in { IF encodes /\ ~threw
                      THEN TokenizeText(HandleEncoding(hs3, me.ref), debouncedText)
                      ELSE EmptyStream } :
        /\ handles' = hs3
        /\ tiktokenRef' = me.ref
        /\ toasts' = IF me.toast THEN 1 ELSE toasts
        /\ encodedEmpty' = (encodedEmpty \/ (encodes /\ debouncedText = <<>>))
        /\ IF threw
           THEN /\ mounted' = FALSE
                /\ crashed' = TRUE
                /\ pending' = {}
                /\ UNCHANGED << tokens, tokenCount, charCount, selectedToken,
                                encodingName, scrollTop >>
           ELSE /\ encodingName' = me.name
                /\ IF runTok
                   THEN /\ tokens' = res.tokens
                        /\ tokenCount' = res.tokenCount
                        /\ charCount' = res.charCount
                        /\ scrollTop' = Min(scrollTop,
                                            MaxScroll(res.tokenCount, gridColumns))
                   ELSE UNCHANGED << tokens, tokenCount, charCount, scrollTop >>
                /\ selectedToken' = IF "autoSelect" \in pending
                                    THEN DefaultSelection(tokens)
                                    ELSE selectedToken
                /\ pending' = IF runTok THEN {"autoSelect"} ELSE {}
                /\ UNCHANGED << mounted, crashed >>
  /\ UNCHANGED << snapshot, hostField, cleared, text, debouncedText, debTimer, edited, model,
                  isReady, gridColumns, lastWidth, mountEnc, workerVars, hostVars >>

\* The commit of the older snapshots (unnamed/part_001): mount effect
\* (lines 228-238), model-change effect (241-256), text effect (289-292)
\* and, in the first of them, the auto-select effect (295-301).
DirectEffects ==
  /\ snapshot \in {"direct", "directNoAuto"}
  /\ mounted
  /\ pending # {}
  /\ LET runMount == "mount" \in pending
         hsA == IF runMount THEN Append(handles, NewHandle(model)) ELSE handles
         refA == IF runMount THEN Len(hsA) ELSE tiktokenRef
         runModel == "model" \in pending
         hsB == IF runModel
                THEN Append(IF refA # 0 THEN free(hsA, refA) ELSE hsA, NewHandle(model))
                ELSE hsA
         refB == IF runModel THEN Len(hsB) ELSE refA
         tokModel == runModel /\ Truthy(text)
         tokText == "text" \in pending /\ isReady /\ refB # 0
         encodes == tokModel \/ (tokText /\ Truthy(text))
         threw == encodes /\ EncodeThrows(text)
         setsTokens == tokModel \/ tokText
     IN \E res \in { IF encodes /\ ~threw
                      THEN TokenizeText(HandleEncoding(hsB, refB), text)
                      ELSE EmptyStream } :
        /\ encodedEmpty' = (encodedEmpty \/ (encodes /\ text = <<>>))
        /\ IF threw
           THEN \* the tree is unmounted: the mount effect's cleanup runs
                /\ mounted' = FALSE
                /\ crashed' = TRUE
                /\ pending' = {}
                /\ handles' = LET c == IF runMount THEN refA ELSE mountEnc
                              IN IF c # 0 THEN free(hsB, c) ELSE hsB
                /\ tiktokenRef' = 0
                /\ UNCHANGED << tokens, tokenCount, charCount, selectedToken,
                                encodingName, isReady, mountEnc >>
           ELSE /\ handles' = hsB
                /\ tiktokenRef' = refB
                /\ mountEnc' = IF runMount THEN refA ELSE mountEnc
                /\ isReady' = (isReady \/ runMount)
                /\ encodingName' = IF runMount \/ runModel
                                   THEN EncodingOf(model) ELSE encodingName
                /\ tokens' = IF setsTokens THEN res.tokens ELSE tokens
                /\ tokenCount' = IF setsTokens THEN res.tokenCount ELSE tokenCount
                /\ charCount' = IF setsTokens THEN res.charCount ELSE charCount
                /\ selectedToken' = IF "autoSelect" \in pending
                                    THEN DefaultSelection(tokens)
                                    ELSE selectedToken
                /\ pending' = (IF runMount THEN {"text"} ELSE {})
                              \cup (IF setsTokens /\ snapshot = "direct"
                                    THEN {"autoSelect"} ELSE {})
                /\ UNCHANGED << mounted, crashed >>
  /\ UNCHANGED << snapshot, hostField, cleared, text, debouncedText, debTimer, edited, model,
                  gridColumns, lastWidth, scrollTop, toasts, workerVars, hostVars >>

\* A handler runs on a mounted component between commits (the older
\* snapshots render a loading screen until isReady).
CanHandle ==
  /\ snapshot # "worker"
  /\ mounted
  /\ pending = {}

\* A component whose tokenization effect follows the text itself, not the
\* debounced text.
setTextUndebounced(v) ==
  /\ CanHandle
  /\ v # text
  /\ text' = v
  /\ cleared' = FALSE
  /\ IF snapshot = "debounced"
     THEN /\ debTimer' = TRUE
          /\ edited' = TRUE
          /\ debouncedText' = v
          /\ pending' = {"tokenize"}
     ELSE pending' = {"text"} /\ UNCHANGED << debTimer, edited, debouncedText >>
  /\ UNCHANGED << snapshot, hostField, encodedEmpty, mounted, crashed, model,
                  liveVars, isReady, gridColumns, lastWidth, scrollTop, tiktokenRef,
                  mountEnc, toasts, handles, workerVars, hostVars >>

\* setText(v): Editor / Textarea onChange, handleExample, and handleClear of
\* the debounced snapshot.
setText(v) ==
  /\ CanHandle
  /\ v # text
  /\ text' = v
  /\ cleared' = FALSE
  /\ IF snapshot = "debounced"
     THEN debTimer' = TRUE /\ edited' = TRUE /\ UNCHANGED pending
     ELSE pending' = {"text"} /\ UNCHANGED << debTimer, edited >>
  /\ UNCHANGED << snapshot, hostField, encodedEmpty, mounted, crashed, debouncedText, model,
                  liveVars, isReady, gridColumns, lastWidth, scrollTop, tiktokenRef,
                  mountEnc, toasts, handles, workerVars, hostVars >>

\* A Clear button that only empties the editor.
handleClearTextOnly ==
  /\ CanHandle
  /\ cleared' = TRUE
  /\ text' = <<>>
  /\ IF snapshot = "debounced"
     THEN /\ debTimer' = (debTimer \/ text # <<>>)
          /\ edited' = (edited \/ text # <<>>)
          /\ UNCHANGED pending
     ELSE /\ pending' = (IF text # <<>> THEN {"text"} ELSE {})
          /\ UNCHANGED << debTimer, edited >>
  /\ UNCHANGED << snapshot, hostField, encodedEmpty, mounted, crashed,
                  debouncedText, model, liveVars, isReady, gridColumns,
                  lastWidth, scrollTop, tiktokenRef, mountEnc, toasts, handles,
                  workerVars, hostVars >>

\* handleClear: setText("") in the debounced snapshot (lines 188-190; a
\* setText of the value the state holds changes nothing), and the five
\* setters of the older snapshots (lines 303-309, 706-712).
handleClear ==
  /\ CanHandle
  /\ cleared' = TRUE
  /\ text' = <<>>
  /\ IF snapshot = "debounced"
     THEN /\ debTimer' = (debTimer \/ text # <<>>)
          /\ edited' = (edited \/ text # <<>>)
          /\ UNCHANGED << pending, liveVars >>
     ELSE /\ tokens' = <<>>
          /\ tokenCount' = 0
          /\ charCount' = 0
          /\ selectedToken' = Null
          /\ pending' = (IF text # <<>> THEN {"text"} ELSE {})
                        \cup (IF snapshot = "direct" THEN {"autoSelect"} ELSE {})
          /\ UNCHANGED << debTimer, edited, encodingName >>
  /\ UNCHANGED << snapshot, hostField, encodedEmpty, mounted, crashed,
                  debouncedText, model, isReady, gridColumns, lastWidth,
                  scrollTop, tiktokenRef, mountEnc, toasts, handles,
                  workerVars, hostVars >>

\* The debounce timer of useDebounce elapses: setDebouncedValue(value).
DebounceFire ==
  /\ snapshot = "debounced"
  /\ mounted
  /\ pending = {}
  /\ debTimer
  /\ debTimer' = FALSE
  /\ edited' = FALSE
  /\ debouncedText' = text
  /\ pending' = IF text # debouncedText THEN {"tokenize"} ELSE {}
  /\ UNCHANGED << snapshot, hostField, encodedEmpty, cleared, mounted, crashed, text, model,
                  liveVars, isReady, gridColumns, lastWidth, scrollTop, tiktokenRef,
                  mountEnc, toasts, handles, workerVars, hostVars >>

\* ModelSelector onChange={setModel} / Select onValueChange={setModel}.
setModel(m) ==
  /\ CanHandle
  /\ m \in Selectable(snapshot)
  /\ m # model
  /\ Len(handles) < MaxHandles
  /\ TotalFrees(handles) < MaxHandles
  /\ model' = m
  /\ pending' = IF snapshot = "debounced" THEN {"model", "tokenize"} ELSE {"model"}
  /\ UNCHANGED << snapshot, hostField, encodedEmpty, cleared, mounted, crashed, text, debouncedText,
                  debTimer, edited, liveVars, isReady, gridColumns, lastWidth, scrollTop,
                  tiktokenRef, mountEnc, toasts, handles, workerVars, hostVars >>

\* The component unmounts: the cleanup of the mount effect of the older
\* snapshots frees the handle it closed over and clears the ref; the
\* debounced snapshot's model effect has no cleanup.
Unmount ==
  /\ CanHandle
  /\ mounted' = FALSE
  /\ IF snapshot = "debounced"
     THEN UNCHANGED << handles, tiktokenRef >>
     ELSE /\ handles' = IF mountEnc # 0 THEN free(handles, mountEnc) ELSE handles
          /\ tiktokenRef' = 0
  /\ UNCHANGED << snapshot, hostField, encodedEmpty, cleared, crashed, pending, text, debouncedText,
                  debTimer, edited, model, liveVars, isReady, gridColumns, lastWidth, scrollTop,
                  mountEnc, toasts, workerVars, hostVars >>

(***************************************************************************)
(* The virtualized grid of the debounced snapshot (lines 105-136 and       *)
(* 366-392).  useVirtualizer is @tanstack/react-virtual: the items whose   *)
(* extent meets the scroll viewport, widened by the overscan on each side. *)
(***************************************************************************)
\* The widths the ResizeObserver reports.
Widths == { 0, 240, 480 }

\* The token indices (0-based) the user clicks, when their cell is rendered.
ClickIndices == { 0, 1, 2, LongLen - 1 }

\* The offsets the user scrolls to.
ScrollOffsets == { 0, 100, 500 }

\* A column count that leaves the margin of four columns out.
NewColumnsNoMargin(width) == Max(1, width \div TOKEN_MIN_WIDTH)

\* const newColumns = Math.max(1, Math.floor(width / TOKEN_MIN_WIDTH) - 4)
NewColumns(width) == Max(1, (width \div TOKEN_MIN_WIDTH) - COLUMN_MARGIN)

\* A virtualizer that hands out every item, whatever the viewport.
VirtualRangeAll(count, size, offset, height, overscan) == 0 .. (count - 1)

\* The virtualizer's range of count items of the given size for a viewport
\* of the given height at the given scroll offset, with its overscan.
VirtualRange(count, size, offset, height, overscan) ==
  IF count = 0 THEN {}
  ELSE LET startIndex == Min(count - 1, offset \div size)
           endIndex == Min(count - 1,
                           Max(startIndex, ((offset + height + size - 1) \div size) - 1))
       IN Max(0, startIndex - overscan) .. Min(count - 1, endIndex + overscan)

\* rowVirtualizer.getVirtualItems(): the row indices.
VirtualRows ==
  VirtualRange(RowCount(Len(tokens), gridColumns), TOKEN_HEIGHT, scrollTop,
               VIEWPORT_MAX_HEIGHT, OVERSCAN)

\* columnVirtualizer.getVirtualItems(): the columns share the container's
\* width (columnWidth = width / newColumns), so all of them are in view.
VirtualColumns == 0 .. (gridColumns - 1)

\* An index computed column-major, as if the grid were transposed.
CellIndexTransposed(row, col) == col * gridColumns + row

\* const index = virtualRow.index * gridColumns + virtualColumn.index
CellIndex(row, col) == row * gridColumns + col

\* const token = tokens[index]; if (!token) return null
RendersToken(row, col) == CellIndex(row, col) < Len(tokens)

\* The render loop: the cells that render a TokenCell.
MaterializedCells ==
  IF Len(tokens) = 0 THEN {}
  ELSE { rc \in VirtualRows \X VirtualColumns : RendersToken(rc[1], rc[2]) }

\* The token indices (0-based) the user can click.
Clickable ==
  IF snapshot = "debounced"
  THEN { CellIndex(rc[1], rc[2]) : rc \in MaterializedCells }
  ELSE 0 .. (Len(tokens) - 1)

\* isSelected={selectedToken?.id === token.id}
isSelected(token) == selectedToken # Null /\ selectedToken.id = token.id

\* The rendered token cells (by token index) that carry the selection ring.
SelectedCells == { i \in Clickable : isSelected(tokens[i + 1]) }

\* onClick={() => setSelectedToken(token)}
selectToken(i) ==
  /\ CanHandle
  /\ i \in Clickable
  /\ selectedToken' = tokens[i + 1]
  /\ UNCHANGED << snapshot, hostField, encodedEmpty, cleared, mounted, crashed, pending, text,
                  debouncedText, debTimer, edited, model, tokens, tokenCount, charCount,
                  encodingName, isReady, gridColumns, lastWidth, scrollTop, tiktokenRef,
                  mountEnc, toasts, handles, workerVars, hostVars >>

\* The ResizeObserver callback (lines 123-132); the observer is attached
\* while the grid is rendered (tokens.length > 0).
Resize(width) ==
  /\ CanHandle
  /\ snapshot = "debounced"
  /\ Len(tokens) > 0
  /\ lastWidth' = width
  /\ IF width > 0
     THEN /\ gridColumns' = NewColumns(width)
          /\ scrollTop' = Min(scrollTop, MaxScroll(Len(tokens), NewColumns(width)))
     ELSE UNCHANGED << gridColumns, scrollTop >>
  /\ UNCHANGED << snapshot, hostField, encodedEmpty, cleared, mounted, crashed, pending, text,
                  debouncedText, debTimer, edited, model, liveVars, isReady,
                  tiktokenRef, mountEnc, toasts, handles, workerVars, hostVars >>

\* The user scrolls the grid.
Scroll(offset) ==
  /\ CanHandle
  /\ snapshot = "debounced"
  /\ Len(tokens) > 0
  /\ offset <= MaxScroll(Len(tokens), gridColumns)
  /\ offset # scrollTop
  /\ scrollTop' = offset
  /\ UNCHANGED << snapshot, hostField, encodedEmpty, cleared, mounted, crashed, pending, text,
                  debouncedText, debTimer, edited, model, liveVars, isReady,
                  gridColumns, lastWidth, tiktokenRef, mountEnc, toasts, handles,
                  workerVars, hostVars >>

(***************************************************************************)
(* The specification.                                                      *)
(***************************************************************************)
Init ==
  /\ snapshot \in Snapshots
  /\ hostField \in IF snapshot = "worker" THEN {"model", "modelId"} ELSE {"model"}
  /\ mounted = TRUE
  /\ crashed = FALSE
  /\ pending = MountEffects(snapshot)
  /\ text = InitialText
  /\ debouncedText = InitialText
  /\ debTimer = (snapshot = "debounced")
  /\ edited = FALSE
  /\ cleared = FALSE
  /\ model = "gpt-4o"
  /\ tokens = <<>>
  /\ tokenCount = 0
  /\ charCount = 0
  /\ selectedToken = Null
  /\ encodingName = "o200k_base"
  /\ isReady = FALSE
  /\ gridColumns = 1
  /\ lastWidth = -1
  /\ scrollTop = 0
  /\ tiktokenRef = 0
  /\ mountEnc = 0
  /\ handles = <<>>
  /\ toasts = 0
  /\ wStarted = FALSE
  /\ jobs = <<>>
  /\ handled = 0
  /\ posted = <<>>
  /\ delivered = 0
  /\ generation = 0
  /\ inflight = <<>>
  /\ liveGen = 0
  /\ dropped = 0
  /\ encodedEmpty = FALSE

\* React commits the pending effects of the debounced snapshot, with either
\* outcome of the calls on a freed handle.
DebouncedCommit ==
  \E freeThrows \in FreeOutcomes :
    \E uafThrows \in UafOutcomes(freeThrows) :
      DebouncedEffects(freeThrows, uafThrows)

Next ==
  \/ WorkerStartup
  \/ WorkerOnMessage
  \/ \E t \in HostTexts, m \in MODEL_GROUPS : HostSubmit(t, m)
  \/ HostReceive
  \/ DebouncedCommit
  \/ DirectEffects
  \/ \E v \in Texts : setText(v)
  \/ handleClear
  \/ DebounceFire
  \/ \E m \in MODEL_GROUPS : setModel(m)
  \/ Unmount
  \/ \E i \in ClickIndices : selectToken(i)
  \/ \E width \in Widths : Resize(width)
  \/ \E offset \in ScrollOffsets : Scroll(offset)

Spec == Init /\ [][Next]_vars

\* The component alone, with the scheduling its runtime provides: React
\* runs the effects of a commit, and an armed timer elapses.
CompInit == Init /\ snapshot # "worker"

CompNext ==
  \/ DebouncedCommit
  \/ DirectEffects
  \/ \E v \in Texts : setText(v)
  \/ handleClear
  \/ DebounceFire
  \/ \E m \in MODEL_GROUPS : setModel(m)
  \/ Unmount
  \/ \E i \in ClickIndices : selectToken(i)
  \/ \E width \in Widths : Resize(width)
  \/ \E offset \in ScrollOffsets : Scroll(offset)

\* A commit as the scheduler sees it: effects are pending on a mounted
\* component, and running them leaves other effects pending, or none.  Only
\* DebouncedCommit and DirectEffects take such a step.
ReactCommits ==
  /\ snapshot # "worker"
  /\ mounted
  /\ pending # {}
  /\ pending' \in SUBSET {"text", "autoSelect"}

LiveSpec ==
  /\ CompInit
  /\ [][CompNext]_vars
  /\ WF_pending(ReactCommits)
  /\ WF_debTimer(DebounceFire)


(***************************************************************************)
(* Properties.                                                             *)
(***************************************************************************)
\* The jobs the host posted under generation g.
JobsOf(g) == { j \in 1..Len(jobs) : jobs[j].gen = g }

\* The messages the worker posted in answer to job j.
RepliesTo(j) == { k \in 1..Len(posted) : posted[k].job = j }

\* The live stream is what the message m carries (an error clears it).
LiveMatches(m) ==
  IF m.status = "complete"
  THEN tokens = m.tokens /\ tokenCount = m.tokenCount /\ charCount = m.charCount
  ELSE tokens = <<>> /\ tokenCount = 0 /\ charCount = 0

\* The live stream is the result of generation g: the worker's reply to the
\* job of that generation, or the empty stream of a short-circuited (or of
\* no) submission.
LiveIsOf(g) ==
  IF JobsOf(g) = {}
  THEN tokens = <<>> /\ tokenCount = 0 /\ charCount = 0
  ELSE \E j \in JobsOf(g) : \E k \in RepliesTo(j) :
         k <= delivered /\ LiveMatches(posted[k])

\* Every job is handled and every reply delivered.
Settled ==
  /\ snapshot = "worker"
  /\ wStarted
  /\ handled = Len(jobs)
  /\ delivered = Len(posted)

\* C1: staleness rejection. The live stream is always the result of one
\* generation, never of a newer one than the host has issued; it is replaced
\* only by the result of the current generation (a result of an older
\* generation is discarded on arrival); and once every reply has arrived the
\* live stream is the result of the latest job.
C1_StalenessRejection ==
  /\ [](snapshot = "worker" => liveGen <= generation /\ LiveIsOf(liveGen))
  /\ [](Settled => liveGen = generation)
  /\ [][liveGen' # liveGen => liveGen' = generation']_vars

\* Job A (a text with tokens) was submitted, job B (the empty text) was
\* submitted and answered before A's result arrived, A's result arrived and
\* was discarded: the live stream is B's.
C1_Witness ==
  /\ Settled
  /\ generation = 2
  /\ Len(jobs) = 1
  /\ jobs[1].gen = 1
  /\ \E k \in RepliesTo(1) : posted[k].status = "complete" /\ posted[k].tokens # <<>>
  /\ text = <<>>
  /\ dropped = 1
  /\ liveGen = 2
  /\ tokens = <<>>

\* C2: every job message the worker has handled has exactly one reply, of
\* status complete or error; this holds for the jobs that follow a failed
\* one as for any other.
C2_ExactlyOneReply ==
  \A j \in 1..handled :
    /\ Cardinality(RepliesTo(j)) = 1
    /\ \A k \in RepliesTo(j) : posted[k].status \in {"complete", "error"}

\* A job that failed was answered with one error, and the job after it with
\* one complete message.
C2_Witness ==
  /\ handled = 2
  /\ \E k \in RepliesTo(1) : posted[k].status = "error"
  /\ \E k \in RepliesTo(2) : posted[k].status = "complete"
  /\ Len(posted) = 3

\* C3: the worker posts ready once, at startup, before every other message;
\* nothing is posted before startup and no later message is a ready message.
C3_ReadyOnce ==
  /\ ~wStarted => posted = <<>>
  /\ wStarted =>
       /\ Len(posted) >= 1
       /\ posted[1] = ReadyMessage
       /\ \A k \in 2..Len(posted) :
            posted[k].status \in {"complete", "error"} /\ posted[k].job > 0

\* The worker has started and has answered a completed and a failed job.
C3_Witness ==
  /\ wStarted
  /\ Len(posted) = 3
  /\ { posted[2].status, posted[3].status } = {"complete", "error"}

\* The bytes of the tokens of a sequence, in order.
RECURSIVE TokenBytes(_, _)
TokenBytes(e, ts) ==
  IF ts = <<>> THEN <<>>
  ELSE decode_single_token_bytes(e, Head(ts).id) \o TokenBytes(e, Tail(ts))

\* The reply to job j is one complete message that carries the result of
\* tokenizing text t for model m.
AnsweredComplete(j, t, m) ==
  /\ Cardinality(RepliesTo(j)) = 1
  /\ \A k \in RepliesTo(j) :
       /\ posted[k].status = "complete"
       /\ posted[k].encodingName = EncodingOf(m)
       /\ TokenBytes(EncodingOf(m), posted[k].tokens) = Utf8Encode(t)
       /\ posted[k].tokenCount = Len(posted[k].tokens)
       /\ posted[k].charCount = length(t)

TokenizedText == IF snapshot = "debounced" THEN debouncedText ELSE text

\* The component has tokenized its text: it is mounted with a tokenizer and
\* no effect that tokenizes is still to run.
Tokenized ==
  /\ snapshot # "worker"
  /\ mounted
  /\ tiktokenRef # 0
  /\ pending \subseteq {"autoSelect"}

\* C5: count consistency. Every complete message of the worker has
\* tokenCount = tokens.length and charCount = the length of the text of the
\* job it answers; the component's tokenCount is always tokens.length, and
\* once it has tokenized its text its charCount is that text's length.
C5_CountConsistency ==
  /\ \A k \in 1..Len(posted) :
       posted[k].status = "complete" =>
         /\ posted[k].tokenCount = Len(posted[k].tokens)
         /\ posted[k].charCount = length(jobs[posted[k].job].text)
  /\ tokenCount = Len(tokens)
  /\ Tokenized => charCount = length(TokenizedText)

\* The component has tokenized a text whose length in UTF-16 units differs
\* from its number of characters and of tokens.
C5_Witness ==
  /\ Tokenized
  /\ TokenizedText = <<"a", "ROCKET">>
  /\ charCount = 3
  /\ tokenCount = 2
  /\ Len(tokens) = 2

\* The component is at rest: mounted, with a tokenizer, every effect run.
AtRest ==
  /\ snapshot # "worker"
  /\ mounted
  /\ tiktokenRef # 0
  /\ pending = {}

\* C6 as stated: once the empty text has been tokenized, tokenCount is 0,
\* the token sequence is empty, charCount is 0 and no token is selected.
C6_EmptyInput ==
  (AtRest /\ TokenizedText = <<>>) =>
    /\ tokenCount = 0
    /\ tokens = <<>>
    /\ charCount = 0
    /\ selectedToken = Null

\* C7 as stated: while the component is mounted no handle is freed more than
\* once or used after its disposal, and after a model switch it holds one
\* live handle, made for the selected model (one creation), every earlier
\* handle freed exactly once (one disposal).
C7_SwitchDisposesPrior ==
  (snapshot # "worker" /\ mounted) =>
    /\ \A h \in 1..Len(handles) :
         handles[h].frees <= 1 /\ ~handles[h].usedAfterFree
    /\ AtRest =>
         /\ handles[tiktokenRef].model = model
         /\ \A h \in 1..Len(handles) :
              handles[h].frees = IF h = tiktokenRef THEN 0 ELSE 1

\* C8 as stated: from mount to unmount no handle of the component is freed
\* twice, and after the unmount every handle it created has been freed.
C8_HandleLifetime ==
  snapshot # "worker" =>
    /\ \A h \in 1..Len(handles) : handles[h].frees < 2
    /\ ~mounted => \A h \in 1..Len(handles) : handles[h].frees = 1

\* C9 as stated: a selected token is an element of the live token sequence.
C9_SelectionValid ==
  selectedToken # Null => \E i \in 1..Len(tokens) : tokens[i] = selectedToken

\* The rows that intersect the scroll viewport.
VisibleRows ==
  { r \in 0 .. (RowCount(Len(tokens), gridColumns) - 1) :
      /\ r * TOKEN_HEIGHT < scrollTop + VIEWPORT_MAX_HEIGHT
      /\ (r + 1) * TOKEN_HEIGHT > scrollTop }

\* The most rows a viewport can intersect, whatever the number of tokens.
MaxVisibleRows == ((VIEWPORT_MAX_HEIGHT + TOKEN_HEIGHT - 1) \div TOKEN_HEIGHT) + 1

\* C10: bounded rendering. The grid materializes at most (the rows that
\* intersect the viewport + 5 rows of overscan on each side) x (the virtual
\* columns) token cells, every one of them in a row within the overscan of a
\* visible row; the bound does not depend on the number of tokens.
C10_BoundedRendering ==
  \E cells \in { MaterializedCells } : \E visible \in { VisibleRows } :
    /\ Cardinality(cells)
         <= (Cardinality(visible) + 2 * OVERSCAN) * Cardinality(VirtualColumns)
    /\ Cardinality(cells)
         <= (MaxVisibleRows + 2 * OVERSCAN) * Cardinality(VirtualColumns)
    /\ \A rc \in cells :
         \E r \in visible : rc[1] - r <= OVERSCAN /\ r - rc[1] <= OVERSCAN

\* The grid holds more token rows than it materializes: it is scrolled and
\* rows on both sides of the overscan window are left out.
C10_Witness ==
  /\ snapshot = "debounced"
  /\ AtRest
  /\ gridColumns = 1
  /\ Len(tokens) = LongLen
  /\ scrollTop > 0
  /\ Cardinality(MaterializedCells) > 0
  /\ Cardinality(MaterializedCells) < Len(tokens)
  /\ \E i \in 0 .. (Len(tokens) - 1) :
       \A rc \in MaterializedCells : rc[1] < i

\* C11 as stated: after a resize that reported the width 0 the grid has
\* exactly one column, whatever the column count was before.
C11_ZeroWidthFallback == lastWidth = 0 => gridColumns = 1

\* C20: column count. After a resize that reported a width w > 0 the grid
\* has max(1, floor(w / 80) - 4) columns, which is the fixed count 1 for
\* every container narrower than 480 px; gridColumns is always an integer
\* >= 1.
C20_ColumnCount ==
  /\ gridColumns \in Nat
  /\ gridColumns >= 1
  /\ lastWidth > 0 =>
       gridColumns = IF (lastWidth \div 80) - 4 > 1 THEN (lastWidth \div 80) - 4 ELSE 1
  /\ (lastWidth > 0 /\ lastWidth < 480) => gridColumns = 1

\* A resize reported 480 px over the long text: the grid has two columns.
C20_Witness ==
  /\ snapshot = "debounced"
  /\ lastWidth = 480
  /\ gridColumns = 2
  /\ Len(tokens) = LongLen

C13_EncodeOnlyInWorker ==
  [][(tokens' # tokens /\ tokens' # <<>>) => delivered' = delivered + 1]_vars

\* C14 as stated: an exception of encode is caught at the job boundary and
\* answered with an error, and the control thread keeps running.
C14_EncodingErrorCaught ==
  /\ ~crashed
  /\ \A j \in 1..handled :
       EncodeThrows(jobs[j].text) =>
         \A k \in RepliesTo(j) : posted[k].status = "error"

\* C15 as stated: a selected model that cannot be resolved is surfaced to
\* the user, and while it is selected no encode call is made on the handle
\* of another model and no token sequence is computed.
C15_UnsupportedModel ==
  /\ []((snapshot # "worker" /\ mounted /\ pending \subseteq {"autoSelect"}
           /\ encoding_for_model_throws(model)) => toasts = 1)
  /\ [][(snapshot # "worker" /\ encoding_for_model_throws(model)) =>
          /\ tokens' = tokens \/ tokens' = <<>>
          /\ \A h \in 1..Len(handles) :
               handles'[h].usedAfterFree = handles[h].usedAfterFree]_vars

\* The texts of the tokens of a sequence, concatenated in order.
RECURSIVE TokenTexts(_)
TokenTexts(ts) ==
  IF ts = <<>> THEN <<>> ELSE Head(ts).text \o TokenTexts(Tail(ts))

\* C16 as stated: the token texts of every result, concatenated in stream
\* order, are the input text.
C16_RoundTrip ==
  /\ \A k \in 1..Len(posted) :
       posted[k].status = "complete" =>
         TokenTexts(posted[k].tokens) = jobs[posted[k].job].text
  /\ Tokenized => TokenTexts(tokens) = TokenizedText

\* C17 as stated: every handle the worker created for a job is freed (once)
\* when the job has been handled.
C17_WorkerHandleOwnership ==
  snapshot = "worker" => \A h \in 1..Len(handles) : handles[h].frees = 1

\* C18 as stated: the commit that follows a change to a resolvable model
\* tokenizes the latest text with the new model.
C18_ModelChangeLatestText ==
  [][(snapshot # "worker" /\ "model" \in pending /\ pending' # pending
        /\ mounted' /\ ~encoding_for_model_throws(model)) =>
       /\ charCount' = length(text)
       /\ TokenBytes(EncodingOf(model), tokens') = Utf8Encode(text)]_vars

\* C19 as stated: when the effects that follow a new token sequence have
\* run, the selection is the first token of the sequence, or none if it is
\* empty.
C19_AutoSelect ==
  [][(snapshot # "worker" /\ pending # {} /\ pending' = {} /\ mounted') =>
       selectedToken' = DefaultSelection(tokens')]_vars

\* C21: row count. The row count handed to the row virtualizer is
\* ceil(tokens.length / gridColumns): the least number of rows of gridColumns
\* cells that hold every token; it is 0 for no token, 1 for one token and
\* never negative, whatever resizes and tokenizations came before.
C21_RowCount ==
  snapshot = "debounced" =>
    LET n == Len(tokens)
        rows == RowCount(n, gridColumns)
    IN /\ rows \in Nat
       /\ rows * gridColumns >= n
       /\ rows > 0 => (rows - 1) * gridColumns < n
       /\ n = 0 => rows = 0
       /\ n = 1 => rows = 1

\* Three tokens lie in a grid of two columns, in two rows, the last of them
\* half filled.
C21_Witness ==
  /\ snapshot = "debounced"
  /\ AtRest
  /\ gridColumns = 2
  /\ Len(tokens) = 3
  /\ RowCount(Len(tokens), gridColumns) = 2

\* The cells of the grid: every row of the row virtualizer's count, every
\* column of the column virtualizer's.
AllCells ==
  (0 .. (RowCount(Len(tokens), gridColumns) - 1)) \X (0 .. (gridColumns - 1))

\* The cells that render a token when they are materialized.
RenderingCells == { rc \in AllCells : RendersToken(rc[1], rc[2]) }

\* The row virtualizer's range once the grid is scrolled to row r (as far as
\* the scroll height allows).
RowsScrolledTo(r) ==
  VirtualRange(RowCount(Len(tokens), gridColumns), TOKEN_HEIGHT,
               Min(r * TOKEN_HEIGHT, MaxScroll(Len(tokens), gridColumns)),
               VIEWPORT_MAX_HEIGHT, OVERSCAN)

\* C22: flat index mapping. The cell (row, col) shows the token of index
\* row * gridColumns + col and nothing when there is no such token; the
\* index of a cell determines the cell, and every token index i has its
\* cell, which is (i div gridColumns, i mod gridColumns), so that the cells
\* that render a token are as many as the tokens; every materialized cell is
\* one of them, and every token's cell is materialized once the grid is
\* scrolled to its row.
C22_FlatIndexMapping ==
  snapshot = "debounced" =>
    /\ \A rc \in AllCells : \E index \in { CellIndex(rc[1], rc[2]) } :
         /\ index \div gridColumns = rc[1]
         /\ index % gridColumns = rc[2]
         /\ RendersToken(rc[1], rc[2]) <=> (rc[1] * gridColumns + rc[2] <= Len(tokens) - 1)
    /\ \A i \in 0 .. (Len(tokens) - 1) :
         /\ << i \div gridColumns, i % gridColumns >> \in AllCells
         /\ CellIndex(i \div gridColumns, i % gridColumns) = i
    /\ \E rendering \in { RenderingCells } :
         /\ Cardinality(rendering) = Len(tokens)
         /\ Len(tokens) = 1 => rendering = { << 0, 0 >> }
         /\ MaterializedCells \subseteq rendering
    /\ \A r \in 0 .. (RowCount(Len(tokens), gridColumns) - 1) :
         r \in RowsScrolledTo(r)

\* Three tokens in two columns: the cell (1, 0) shows the last token and the
\* cell (1, 1) renders nothing.
C22_Witness ==
  /\ snapshot = "debounced"
  /\ AtRest
  /\ gridColumns = 2
  /\ Len(tokens) = 3
  /\ MaterializedCells = { << 0, 0 >>, << 0, 1 >>, << 1, 0 >> }
  /\ << 1, 1 >> \in AllCells \ RenderingCells

\* C23: empty-text short-circuit. encode is never called with the empty
\* text; the commit of the component that tokenizes the empty text leaves the
\* empty stream (no tokens, both counts 0) at once and does not fail; the
\* host answers a submission of the empty text with the empty stream in the
\* same step and posts no job for it, so that no job carries the empty text.
C23_EmptyShortCircuit ==
  /\ [](~encodedEmpty)
  /\ [](\A j \in 1..Len(jobs) : jobs[j].text # <<>>)
  /\ [][(snapshot # "worker" /\ pending' # pending /\ TokenizedText = <<>>
           /\ pending \cap {"tokenize", "text"} # {}) =>
          /\ tokens' = <<>> /\ tokenCount' = 0 /\ charCount' = 0
          /\ mounted' = mounted
          /\ \A h \in 1..Len(handles) :
               handles'[h].usedAfterFree = handles[h].usedAfterFree]_vars
  /\ [][(snapshot = "worker" /\ generation' # generation /\ text' = <<>>) =>
          /\ jobs' = jobs
          /\ tokens' = <<>> /\ tokenCount' = 0 /\ charCount' = 0]_vars

\* The grid once showed tokens (it was resized), and the empty text has been
\* tokenized since: the stream is empty and encode never saw the empty text.
C23_Witness ==
  /\ snapshot = "debounced"
  /\ AtRest
  /\ lastWidth = 480
  /\ ~edited
  /\ debouncedText = <<>>
  /\ tokens = <<>>
  /\ handles[tiktokenRef].frees = 0
  /\ ~encodedEmpty

\* C24 as stated: whenever a non-empty token sequence is displayed, the
\* displayed encodingName is the encoding of the selected model, and the
\* sequence is what that encoding produces for the text.
C24_EncodingNameConsistent ==
  ((AtRest \/ Settled) /\ tokens # <<>>) =>
    /\ encodingName = EncodingOf(model)
    /\ tokens = BuildTokens(encodingName, encode(encodingName, TokenizedText))

\* The colour functions of lib/utils and of the worker on the indices of two
\* long texts: entry i mod 12 of the palette of lib/utils, of twelve entries.
PaletteByPosition ==
  /\ \A i \in 0 .. (2 * LongLen) :
       /\ getTokenColor(i) = TOKEN_COLORS[(i % 12) + 1].bg
       /\ getTokenBorderColor(i) = TOKEN_COLORS[(i % 12) + 1].border
       /\ WorkerGetTokenColor(i) = getTokenColor(i)
       /\ WorkerGetTokenBorderColor(i) = getTokenBorderColor(i)
  /\ Len(TOKEN_COLORS) = 12

\* C25: token colours. The token at position i (from 0) of every live
\* stream and of every result of the worker has the background and the
\* border of the entry i mod 12 of the palette of lib/utils, whatever its id
\* and text; and the worker's own getTokenColor and getTokenBorderColor
\* return what those of lib/utils return for every index.
C25_PositionColours ==
  /\ PaletteByPosition
  /\ \A i \in 1 .. Len(tokens) :
       /\ tokens[i].color = TOKEN_COLORS[((i - 1) % 12) + 1].bg
       /\ tokens[i].borderColor = TOKEN_COLORS[((i - 1) % 12) + 1].border
  /\ \A k \in 1 .. Len(posted) :
       posted[k].status = "complete" =>
         \A i \in 1 .. Len(posted[k].tokens) :
           /\ posted[k].tokens[i].color = TOKEN_COLORS[((i - 1) % 12) + 1].bg
           /\ posted[k].tokens[i].borderColor
                = TOKEN_COLORS[((i - 1) % 12) + 1].border

\* The worker's result for the long text is the live stream: its thirteenth
\* token has the colours of the first, though both tokens have the same id.
C25_Witness ==
  /\ Settled
  /\ Len(tokens) = LongLen
  /\ tokens[13].color = tokens[1].color
  /\ tokens[13].borderColor = tokens[1].borderColor
  /\ tokens[2].color # tokens[1].color
  /\ tokens[2].id = tokens[1].id

\* C26 as stated: at most one rendered token cell of the live stream carries
\* the selection ring.
C26_SingleHighlight ==
  (snapshot # "worker" /\ mounted) => Cardinality(SelectedCells) <= 1

\* Nothing more happens to the component unless the user acts: no effect is
\* pending and no debounce timer is armed.
Quiescent ==
  /\ snapshot # "worker"
  /\ mounted \/ crashed
  /\ pending = {}
  /\ ~debTimer

\* The display is the tokenization of the latest text under the selected
\* model (the empty stream when that tokenization fails).
ConsistentWithLatest ==
  IF encoding_for_model_throws(model) \/ EncodeThrows(text)
  THEN tokens = <<>> /\ tokenCount = 0
  ELSE /\ tokens = BuildTokens(EncodingOf(model), encode(EncodingOf(model), text))
       /\ tokenCount = Len(encode(EncodingOf(model), text))
       /\ charCount = length(text)

\* C27 as stated: once the user has stopped and nothing is left to run, the
\* live stream, tokenCount and charCount are the tokenization of the latest
\* text under the selected model.
C27_EventualConsistency == Quiescent => ConsistentWithLatest

\* C28: reply ordering. The worker answers its messages one at a time and
\* in the order it received them: the replies it has posted are those to the
\* jobs handled so far, in the order of the jobs (after the ready message);
\* a step of the worker appends the reply to the next job and leaves the
\* earlier replies as they are; the host receives the replies one by one in
\* that order.
C28_ReplyOrdering ==
  /\ [](\A k1, k2 \in 1 .. Len(posted) :
          k1 < k2 => posted[k1].job <= posted[k2].job)
  /\ [](\A k \in 1 .. Len(posted) : posted[k].job <= handled)
  /\ [][posted' # posted =>
          /\ Len(posted') > Len(posted)
          /\ SubSeq(posted', 1, Len(posted)) = posted
          /\ \A k \in (Len(posted) + 1) .. Len(posted') :
               posted'[k].job = IF wStarted THEN handled + 1 ELSE 0]_vars
  /\ [][delivered' # delivered =>
          delivered' = delivered + 1 /\ posted' = posted]_vars

\* The long text was submitted before a short one: the reply to the long
\* text was posted, and delivered, before the reply to the short one.
C28_Witness ==
  /\ Settled
  /\ Len(jobs) = 2
  /\ Len(jobs[1].text) = LongLen
  /\ jobs[2].text = <<"b", "a">>
  /\ Len(posted) = 3
  /\ posted[2].job = 1
  /\ posted[2].status = "complete"
  /\ posted[3].job = 2
  /\ posted[3].status = "complete"
  /\ tokens = posted[3].tokens

\* The display after a Clear: no token, both counts 0, nothing selected.
ClearedDisplay ==
  /\ tokens = <<>>
  /\ tokenCount = 0
  /\ charCount = 0
  /\ selectedToken = Null

\* C29: Clear. From the Clear click until the next edit the text is empty;
\* in the components without debounce the token sequence, both counts and
\* the selection are empty from the click on, through every later commit; in
\* the debounced component they are empty whenever the timer has elapsed and
\* the effects have run, and that state is reached when no edit follows
\* (unless the component is unmounted first).
C29_Clear ==
  /\ [](cleared => text = <<>>)
  /\ []((cleared /\ snapshot # "debounced") => ClearedDisplay)
  /\ []((cleared /\ snapshot = "debounced" /\ pending = {} /\ ~debTimer)
          => ClearedDisplay)
  /\ (cleared /\ mounted)
       ~> (~cleared \/ ~mounted \/ (ClearedDisplay /\ pending = {} /\ ~debTimer))

\* Clear was clicked on a grid of two columns that showed tokens; the timer
\* has elapsed and the effects have run: nothing is displayed or selected.
C29_Witness ==
  /\ snapshot = "debounced"
  /\ cleared
  /\ mounted
  /\ pending = {}
  /\ ~debTimer
  /\ gridColumns = 2
  /\ debouncedText = <<>>
  /\ ClearedDisplay

\* The palette's entries differ pairwise, and the colour functions differ on
\* neighbouring indices.
PaletteDistinct ==
  /\ \A a, b \in 1 .. Len(TOKEN_COLORS) :
       a # b => /\ TOKEN_COLORS[a].bg # TOKEN_COLORS[b].bg
                /\ TOKEN_COLORS[a].border # TOKEN_COLORS[b].border
  /\ \A i \in 0 .. (2 * LongLen) :
       /\ getTokenColor(i) # getTokenColor(i + 1)
       /\ getTokenBorderColor(i) # getTokenBorderColor(i + 1)

\* C30: adjacent tokens are visually distinct. The twelve entries of the
\* palette differ pairwise in background and in border; hence for every
\* index i the colours of i and i + 1 differ, across the wrap from entry 12
\* to entry 1 too, and so do the colours of any two neighbours of the live
\* stream and of every result of the worker.
C30_AdjacentDistinct ==
  /\ PaletteDistinct
  /\ \A i \in 1 .. (Len(tokens) - 1) :
       /\ tokens[i].color # tokens[i + 1].color
       /\ tokens[i].borderColor # tokens[i + 1].borderColor
  /\ \A k \in 1 .. Len(posted) :
       posted[k].status = "complete" =>
         \A i \in 1 .. (Len(posted[k].tokens) - 1) :
           /\ posted[k].tokens[i].color # posted[k].tokens[i + 1].color
           /\ posted[k].tokens[i].borderColor
                # posted[k].tokens[i + 1].borderColor

\* The component shows the long text: more tokens than the palette has
\* entries, all of one id, and the thirteenth differs from the twelfth.
C30_Witness ==
  /\ snapshot = "debounced"
  /\ AtRest
  /\ Len(tokens) = LongLen
  /\ tokens[12].id = tokens[13].id
  /\ tokens[12].color # tokens[13].color
  /\ tokens[12].borderColor # tokens[13].borderColor
  /\ tokens[13].color = tokens[1].color

=============================================================================
